---- MODULE Spec2Model ----
(***************************************************************************)
(* Model of the Bazaar backend of meld (meld/vc/bzr.py): the status scan   *)
(* _update_tree_state_cache with its callers _lookup_tree_cache and        *)
(* update_file_state, the tree-state cache and the metadata side map.      *)
(*                                                                         *)
(* A status line is a record [code, name]: code is entry[:3] as a sequence *)
(* of characters, name is entry[4:].strip() as a sequence of words.  A     *)
(* path is a sequence of words whose first word is the branch root.  A     *)
(* dict is a set of <<key, value>> pairs with at most one pair per key.    *)
(***************************************************************************)
EXTENDS Integers, Sequences, FiniteSets, TLC

\* Largest number of lines in one output of "bzr status".
MaxLines == 2
\* Largest number of completed "bzr status" runs in one behaviour.
MaxScans == 2

----------------------------------------------------------------------------
\* Path states (meld/vc/_vc.py, not part of the sources at hand).

STATE_NONE == "NONE"
STATE_IGNORED == "IGNORED"
STATE_NORMAL == "NORMAL"
STATE_MISSING == "MISSING"
STATE_NEW == "NEW"
STATE_MODIFIED == "MODIFIED"
STATE_REMOVED == "REMOVED"
STATE_RENAMED == "RENAMED"
STATE_CONFLICT == "CONFLICT"

States ==
  {STATE_NONE, STATE_IGNORED, STATE_NORMAL, STATE_MISSING, STATE_NEW,
   STATE_MODIFIED, STATE_REMOVED, STATE_RENAMED, STATE_CONFLICT}

\* The order of the states:
\* CONFLICT > RENAMED > REMOVED > MODIFIED > NEW > MISSING > NORMAL > IGNORED > NONE.
Prio(s) ==
  CASE s = STATE_NONE -> 0
    [] s = STATE_IGNORED -> 1
    [] s = STATE_NORMAL -> 2
    [] s = STATE_MISSING -> 3
    [] s = STATE_NEW -> 4
    [] s = STATE_MODIFIED -> 5
    [] s = STATE_REMOVED -> 6
    [] s = STATE_RENAMED -> 7
    [] s = STATE_CONFLICT -> 8

\* Python's None, as a value of the state maps.
None == "None"

----------------------------------------------------------------------------
\* Dicts.

Keys(d) == {e[1] : e \in d}

Get(d, k, default) ==
  IF k \in Keys(d) THEN (CHOOSE e \in d : e[1] = k)[2] ELSE default

Put(d, k, v) == {e \in d : e[1] # k} \cup {<<k, v>>}

----------------------------------------------------------------------------
\* The state tables and the pattern built from them.

\* ord() of the characters the model uses.
Ord(c) ==
  CASE c = " " -> 32 [] c = "*" -> 42 [] c = "+" -> 43 [] c = "-" -> 45
    [] c = "." -> 46 [] c = "/" -> 47 [] c = "?" -> 63 [] c = "@" -> 64
    [] c = "C" -> 67 [] c = "D" -> 68 [] c = "K" -> 75 [] c = "M" -> 77
    [] c = "N" -> 78 [] c = "P" -> 80 [] c = "R" -> 82 [] c = "X" -> 88
    [] c = "Z" -> 90 [] c = "x" -> 120

state_1_map ==
  {<<" ", None>>, <<"+", None>>, <<"-", None>>, <<"R", STATE_RENAMED>>,
   <<"?", STATE_NONE>>, <<"X", None>>, <<"C", STATE_CONFLICT>>, <<"P", None>>}

state_2_map ==
  {<<" ", STATE_NORMAL>>, <<"N", STATE_NEW>>, <<"D", STATE_REMOVED>>,
   <<"K", STATE_RENAMED>>, <<"M", STATE_MODIFIED>>}

state_3_map ==
  {<<" ", None>>, <<"*", STATE_MODIFIED>>, <<"/", STATE_MODIFIED>>,
   <<"@", STATE_MODIFIED>>}

\* ''.join(state_1_map.keys()): the keys in the order the dict iterates them,
\* which the interpreter decides: the order of insertion, or the order of
\* the hash table of CPython 2.7.
KeyOrders1 ==
  {<<" ", "+", "-", "R", "?", "X", "C", "P">>,
   <<" ", "C", "R", "P", "X", "+", "-", "?">>}

KeyOrder2 == <<" ", "N", "D", "K", "M">>

KeyOrder3 == <<" ", "*", "/", "@">>

\* Whether the character class [chars] of a regular expression matches c:
\* "a-b" inside the brackets is the range from a to b.
RECURSIVE InClass(_, _, _)
InClass(c, chars, i) ==
  IF i > Len(chars) THEN FALSE
  ELSE IF i + 2 <= Len(chars) /\ chars[i + 1] = "-"
    THEN \/ (Ord(chars[i]) <= Ord(c) /\ Ord(c) <= Ord(chars[i + 2]))
         \/ InClass(c, chars, i + 3)
    ELSE c = chars[i] \/ InClass(c, chars, i + 1)

\* re.match(self.valid_status_re, state_string)
ValidStatus(code, keys1) ==
  /\ Len(code) = 3
  /\ InClass(code[1], keys1, 1)
  /\ InClass(code[2], KeyOrder2, 1)
  /\ InClass(code[3], KeyOrder3, 1)

\* The state of columns 1 and 2.
\* Column 2 is looked up first.
ColumnStateSecondFirst(code) ==
  LET s1 == Get(state_1_map, code[1], None)
      s2 == Get(state_2_map, code[2], None)
  IN IF s2 # None THEN s2 ELSE IF s1 = None THEN STATE_NORMAL ELSE s1

ColumnState(code) ==
  LET s1 == Get(state_1_map, code[1], None)
  IN IF s1 = None THEN Get(state_2_map, code[2], STATE_NORMAL) ELSE s1

\* state_3_map.get(state_string[2], None)
ExecutableChange(code) == Get(state_3_map, code[3], None)

----------------------------------------------------------------------------
\* The patterns on the name.

\* Every position of "=>": the pattern without the space after "=>".
ArrowPositionsNoSpace(name) == {i \in 1..Len(name) : name[i] = "=>"}

\* The positions of "=>" that have a word after them.
ArrowPositions(name) == {i \in 1..(Len(name) - 1) : name[i] = "=>"}

\* re.search(RENAMED_RE, name) is not None, RENAMED_RE = ".*=> (.*)$"
RenamedMatches(name) == ArrowPositions(name) # {}

Max(S) == CHOOSE x \in S : \A y \in S : y <= x
Min(S) == CHOOSE x \in S : \A y \in S : x <= y

\* group(1): what follows the last "=> " (the leading .* is greedy).
RenamedGroup(name) ==
  SubSeq(name, Max(ArrowPositions(name)) + 1, Len(name))

\* The positions of "conflict in" that have a word after them.
ConflictPositions(name) ==
  {i \in 1..(Len(name) - 2) : name[i] = "conflict" /\ name[i + 1] = "in"}

\* re.search(CONFLICT_RE, name) is not None, CONFLICT_RE = "conflict in (.*)$"
ConflictMatches(name) == ConflictPositions(name) # {}

\* group(1): what follows the first "conflict in ".
ConflictGroup(name) ==
  SubSeq(name, Min(ConflictPositions(name)) + 2, Len(name))

\* The slash of a directory is kept.
KeepSlash(s) == s

\* str.strip('/')
RECURSIVE StripSlash(_)
StripSlash(s) ==
  IF s = <<>> THEN s
  ELSE IF Head(s) = "/" THEN StripSlash(Tail(s))
  ELSE IF s[Len(s)] = "/" THEN StripSlash(SubSeq(s, 1, Len(s) - 1))
  ELSE s

\* os.path.join(branch_root, name)
Join(root, name) ==
  IF name = <<>> THEN <<root, "/">>
  ELSE IF Head(name) = "/" THEN name
  ELSE <<root>> \o name

\* The output of "bzr root".
BranchRoot == "root"

----------------------------------------------------------------------------
\* One entry of the loop of _update_tree_state_cache.

\* The text of the first line of "bzr diff" after "=== modified file '..' ".
PermText == <<"(properties changed: +x to -x)">>

\* The entry takes one of the three "continue" statements of the loop.
Discarded(e, keys1) ==
  \/ ~ValidStatus(e.code, keys1)
  \/ ColumnState(e.code) = STATE_RENAMED /\ ~RenamedMatches(e.name)
  \/ ColumnState(e.code) = STATE_CONFLICT /\ ~ConflictMatches(e.name)

\* name, after the processing of renames and conflicts.
EntryName(e) ==
  IF ColumnState(e.code) = STATE_RENAMED THEN StripSlash(RenamedGroup(e.name))
  ELSE IF ColumnState(e.code) = STATE_CONFLICT THEN ConflictGroup(e.name)
  ELSE e.name

EntryPath(e) == Join(BranchRoot, EntryName(e))

\* Every state weaker than MODIFIED is folded into MODIFIED.
EntryStateFoldsWeaker(e) ==
  IF ExecutableChange(e.code) # None
     /\ Prio(ColumnState(e.code)) < Prio(STATE_MODIFIED)
  THEN ExecutableChange(e.code)
  ELSE ColumnState(e.code)

\* state, after the executable bit has been looked at.
EntryState(e) ==
  IF ExecutableChange(e.code) # None /\ ColumnState(e.code) = STATE_NORMAL
  THEN ExecutableChange(e.code)
  ELSE ColumnState(e.code)

\* The entry runs "bzr diff".
NeedsDiff(e, keys1) == ~Discarded(e, keys1) /\ ExecutableChange(e.code) # None

\* meta, given whether the first line of the diff matched PATCH_INDEX_RE.
EntryMeta(e, diff) ==
  (IF ColumnState(e.code) = STATE_RENAMED THEN e.name ELSE <<>>)
  \o (IF ExecutableChange(e.code) # None /\ diff = "match" THEN PermText ELSE <<>>)

\* The reset leaves a state that is already stored as it is.
ResetKeepsStale(tree, p) == IF p \in Keys(tree) THEN tree ELSE Put(tree, p, STATE_NORMAL)

\* tree_state[path] = _vc.STATE_NORMAL
ResetToNormal(tree, p) == Put(tree, p, STATE_NORMAL)

\* if meta: self._tree_meta_cache[path] = meta
StoreMeta(metas, p, meta) == IF meta # <<>> THEN Put(metas, p, meta) ELSE metas

\* The last line taken wins, whatever its state.
StoreStateLastWins(tree, p, state) == Put(tree, p, state)

\* if path in tree_state: (if state > tree_state[path]: ...) else: ...
StoreState(tree, p, state) ==
  IF p \in Keys(tree)
  THEN IF Prio(state) > Prio(Get(tree, p, None)) THEN Put(tree, p, state) ELSE tree
  ELSE Put(tree, p, state)

----------------------------------------------------------------------------
\* The lines the tool prints.

Line(c1, c2, c3, name) == [code |-> <<c1, c2, c3>>, name |-> name]

NameA == <<"a">>
NameB == <<"b">>
NameAtoB == <<"a", "=>", "b">>
NameAtoDirB == <<"a", "=>", "b", "/">>
NameConflictB == <<"Text", "conflict", "in", "b">>
NameBArrow == <<"b", "=>">>

\* The lines of the scans that follow one another.
CoreLines ==
  {Line(" ", "M", " ", NameA), Line(" ", "D", " ", NameA),
   Line(" ", "M", "*", NameB), Line("R", " ", " ", NameAtoB),
   Line("C", " ", " ", NameConflictB), Line("Z", "M", " ", NameB)}

Col1Chars == {" ", "R", "?", "C", ".", "M", "Z"}
Col2Chars == {" ", "N", "D", "K", "M", "x"}
Col3Chars == {" ", "*", "x"}
WideNames == {NameB, NameAtoB, NameAtoDirB, NameConflictB, NameBArrow}

\* Every code over the characters above, with every name.
WideLines ==
  {Line(c1, c2, c3, n) : c1 \in Col1Chars, c2 \in Col2Chars, c3 \in Col3Chars,
                         n \in WideNames}

SubsetsUpTo(S, n) == {T \in SUBSET S : Cardinality(T) <= n}

\* The outputs of one run of "bzr status".
Outputs(w) ==
  IF w
  THEN {{l} \cup T : l \in WideLines, T \in SubsetsUpTo(CoreLines, MaxLines - 1)}
  ELSE SubsetsUpTo(CoreLines, MaxLines)

DotSlash == <<"./">>
PathA == <<BranchRoot, "a">>
PathB == <<BranchRoot, "b">>
RefreshPaths == {PathA, PathB}

----------------------------------------------------------------------------
VARIABLES
  keys1,            \* ''.join(state_1_map.keys()) of this interpreter
  wide,             \* the next status output is drawn from WideLines
  cache_valid,      \* CachedVc._tree_cache is not None
  tree_cache,       \* CachedVc._tree_cache
  tree_meta_cache,  \* Vc._tree_meta_cache
  pc,               \* the place in _update_tree_state_cache
  caller,           \* the operation that runs
  path,             \* the argument path of _update_tree_state_cache
  target,           \* the argument path of update_file_state
  tree_state,       \* the dict of _lookup_tree_cache
  got,              \* entries, as _get_modified_files returned them
  entries,          \* the entries the loop has not taken yet
  raised,           \* the exception that ended the last operation
  retried,          \* the retry loop has caught an EAGAIN
  scans,            \* the number of status outputs read
  pre_cache,        \* tree_cache when the operation began to update it
  pre_meta,         \* tree_meta_cache at that moment
  result,           \* the dict the last status query returned
  answered,         \* how it was answered, when the last operation was one
  forced,           \* the last operation was a refresh that found no line
  call,             \* the call of a method without steps: its name, its arguments
  ret,              \* what that call returned or raised
  popens,           \* the number of processes get_path_for_repo_file started
  tempfiles,        \* the temporary files it created: name -> content
  tasks,            \* the window's scheduler: its own tasks, the newest last
  schedulers,       \* the window's scheduler: the page schedulers registered
  turn,             \* the window's scheduler: the child it polls first
  notebook,         \* the pages in the notebook, from left to right
  pages,            \* each page: "new", "open" (in the notebook) or "closed",
                    \* "absent" for a page the session never makes;
                    \* the view of _single_file_open: "transient", "diffed"
  pending,          \* each page's scheduler: the number of its queued tasks
  adds,             \* the number of tasks the window's scheduler was given
  idle_hooked,      \* MeldWindow.idle_hooked
  idle_sources,     \* the idle callbacks installed in the main loop
  spinner,          \* the spinner: shown, spinning, its tooltip
  stop_sensitive,   \* the Stop action is sensitive
  executed,         \* the window's own tasks that ran, in the order they ran
  emitted,          \* what came of the step's "runnable" signal, if it gave one
  cleanup           \* _single_file_open: its cleanup task and the view it removes

\* The variables of the calls of methods without steps.
callvars == <<call, ret, popens, tempfiles>>

\* The variables of the window.
winvars ==
  <<tasks, schedulers, turn, notebook, pages, pending, adds, idle_hooked,
    idle_sources, spinner, stop_sensitive, executed, emitted, cleanup>>

\* The variables the scan does not touch.
others == <<callvars, winvars>>

vars ==
  <<keys1, wide, cache_valid, tree_cache, tree_meta_cache, pc, caller, path,
    target, tree_state, got, entries, raised, retried, scans, pre_cache,
    pre_meta, result, answered, forced, others>>

\* The variables of the scan.
scanvars ==
  <<keys1, wide, cache_valid, tree_cache, tree_meta_cache, pc, caller, path,
    target, tree_state, got, entries, raised, retried, scans, pre_cache,
    pre_meta, result, answered, forced>>

NoCall == [op |-> "none"]
NoRet == [kind |-> "none", value |-> {}]
Returned(v) == [kind |-> "return", value |-> v]
Raised(exc) == [kind |-> "raise", value |-> exc]

\* No call of a method without steps.
MaxPages == 1

\* The pages; the last one is made only in a session that begins with
\* every page to come (InitClose).
Pages == 1..(MaxPages + 1)

\* The VcView that _single_file_open makes: it never enters the notebook.
View == MaxPages + 2
Docs == Pages \cup {View}

\* idle_hooked is 0, None or the id of an idle callback; as a sequence, None
\* is the empty one.
NoneValue == <<>>
Truthy(v) == v # NoneValue /\ v # <<0>>

\* The window after __init__.
\* The window after construction, but for the pages to come.
InitNoPages ==
  /\ tasks = <<>>
  /\ schedulers = <<>>
  /\ turn = 1
  /\ notebook = <<>>
  /\ pending = [p \in Docs |-> 0]
  /\ adds = 0
  /\ idle_hooked = <<0>>
  /\ idle_sources = {}
  /\ spinner = [shown |-> FALSE, spinning |-> FALSE, tooltip |-> ""]
  /\ stop_sensitive = FALSE
  /\ executed = <<>>
  /\ emitted = "none"
  /\ cleanup = {}

InitWindow ==
  /\ InitNoPages
  /\ pages = [p \in Docs |-> IF p = MaxPages + 1 THEN "absent" ELSE "new"]

OthersIdle ==
  /\ call = NoCall /\ ret = NoRet /\ popens = 0 /\ tempfiles = {}
  /\ InitWindow

\* The dict _update_tree_state_cache writes to: update_file_state passes the
\* cached dict itself, _lookup_tree_cache a new one.
Work == IF caller = "update_file_state" THEN tree_cache ELSE tree_state

InitCommon ==
  /\ keys1 \in KeyOrders1
  /\ cache_valid = FALSE
  /\ tree_cache = {}
  /\ tree_meta_cache = {}
  /\ pc = "idle"
  /\ caller = "none"
  /\ path = <<>>
  /\ target = <<>>
  /\ tree_state = {}
  /\ got = {}
  /\ entries = {}
  /\ raised = "none"
  /\ retried = FALSE
  /\ pre_cache = {}
  /\ pre_meta = {}
  /\ result = {}
  /\ answered = "none"
  /\ forced = FALSE

Init == InitCommon /\ wide = FALSE /\ scans = 0 /\ OthersIdle

\* The first status output holds any line of WideLines.
InitWide == InitCommon /\ wide = TRUE /\ scans = 0 /\ OthersIdle

\* The operation begins: nothing is in flight.
Begin(c, p, t) ==
  /\ caller' = c
  /\ path' = p
  /\ target' = t
  /\ pc' = "status"
  /\ tree_state' = {}
  /\ got' = {}
  /\ entries' = {}
  /\ raised' = "none"
  /\ retried' = FALSE
  /\ answered' = "none"
  /\ forced' = FALSE
  /\ result' = {}
  /\ pre_cache' = tree_cache
  /\ pre_meta' = tree_meta_cache
  /\ UNCHANGED <<others, keys1, wide, cache_valid, tree_cache, tree_meta_cache, scans>>

\* The operation ends with the exception err.
Raise(err) ==
  /\ pc' = "idle"
  /\ caller' = "none"
  /\ raised' = err
  /\ tree_state' = {}
  /\ got' = {}
  /\ entries' = {}
  /\ UNCHANGED <<others, keys1, wide, cache_valid, tree_cache, tree_meta_cache, path,
                 target, retried, scans, pre_cache, pre_meta, result, answered, forced>>

\* _get_dirsandfiles -> _get_tree_cache, the cache is filled: no scan.
GetTreeCacheHit ==
  /\ pc = "idle"
  /\ cache_valid
  /\ result' = tree_cache
  /\ answered' = (IF answered = "none" THEN "cache" ELSE "again")
  /\ forced' = FALSE
  /\ raised' = "none"
  /\ UNCHANGED <<others, keys1, wide, cache_valid, tree_cache, tree_meta_cache, pc,
                 caller, path, target, tree_state, got, entries, retried, scans,
                 pre_cache, pre_meta>>

\* _get_dirsandfiles -> _get_tree_cache -> _lookup_tree_cache
GetTreeCacheMiss ==
  /\ pc = "idle"
  /\ ~cache_valid
  /\ scans < MaxScans
  /\ Begin("_lookup_tree_cache", DotSlash, <<>>)

\* update_file_state(p); _get_tree_cache scans first when the cache is empty.
UpdateFileState ==
  /\ pc = "idle"
  /\ \E p \in RefreshPaths :
       IF cache_valid
       THEN scans < MaxScans /\ Begin("update_file_state", p, p)
       ELSE scans + 1 < MaxScans /\ Begin("_get_tree_cache", DotSlash, p)

\* The cache is dropped; the next query scans again.
Invalidate ==
  /\ pc = "idle"
  /\ cache_valid
  /\ scans < MaxScans
  /\ cache_valid' = FALSE
  /\ tree_cache' = {}
  /\ answered' = "none"
  /\ forced' = FALSE
  /\ result' = {}
  /\ raised' = "none"
  /\ UNCHANGED <<others, keys1, wide, tree_meta_cache, pc, caller, path, target,
                 tree_state, got, entries, retried, scans, pre_cache, pre_meta>>

\* The try block of the retry loop: _get_modified_files returns, or raises
\* EAGAIN (the loop goes round) or another OSError (the loop re-raises it).
GetModifiedFiles ==
  /\ pc = "status"
  /\ \/ \E out \in Outputs(wide) :
          /\ got' = out
          /\ entries' = out
          /\ scans' = scans + 1
          /\ wide' = FALSE
          /\ pc' = "check"
          /\ UNCHANGED <<others, keys1, cache_valid, tree_cache, tree_meta_cache, caller,
                         path, target, tree_state, raised, retried, pre_cache,
                         pre_meta, result, answered, forced>>
     \/ /\ retried' = TRUE
        /\ UNCHANGED <<others, keys1, wide, cache_valid, tree_cache, tree_meta_cache, pc,
                       caller, path, target, tree_state, got, entries, raised,
                       scans, pre_cache, pre_meta, result, answered, forced>>
     \/ Raise("OSError")

\* The operation returns.
Return ==
  /\ got' = {}
  /\ entries' = {}
  /\ tree_state' = {}
  /\ UNCHANGED <<others, keys1, wide, tree_meta_cache, raised, retried, scans, forced>>
  /\ CASE caller = "_lookup_tree_cache" ->
            /\ tree_cache' = tree_state
            /\ cache_valid' = TRUE
            /\ result' = tree_state
            /\ answered' = "scan"
            /\ pc' = "idle"
            /\ caller' = "none"
            /\ UNCHANGED <<path, target, pre_cache, pre_meta>>
       [] caller = "_get_tree_cache" ->
            /\ tree_cache' = tree_state
            /\ cache_valid' = TRUE
            /\ pc' = "status"
            /\ caller' = "update_file_state"
            /\ path' = target
            /\ pre_cache' = tree_state
            /\ pre_meta' = tree_meta_cache
            /\ UNCHANGED <<target, result, answered>>
       [] caller = "update_file_state" ->
            /\ pc' = "idle"
            /\ caller' = "none"
            /\ UNCHANGED <<cache_valid, tree_cache, path, target, pre_cache,
                           pre_meta, result, answered>>

\* len(entries) == 0 and os.path.isfile(path): tree_state[path] = STATE_NORMAL
ForceNormal ==
  /\ pc = "check"
  /\ got = {}
  /\ caller = "update_file_state"
  /\ tree_cache' = ResetToNormal(tree_cache, path)
  /\ forced' = TRUE
  /\ pc' = "idle"
  /\ caller' = "none"
  /\ UNCHANGED <<others, keys1, wide, cache_valid, tree_meta_cache, path, target,
                 tree_state, got, entries, raised, retried, scans, pre_cache,
                 pre_meta, result, answered>>

\* The else branch: "bzr root" runs, outside any try block.
GetBranchRoot ==
  /\ pc = "check"
  /\ \/ /\ pc' = "loop"
        /\ UNCHANGED <<others, keys1, wide, cache_valid, tree_cache, tree_meta_cache,
                       caller, path, target, tree_state, got, entries, raised,
                       retried, scans, pre_cache, pre_meta, result, answered, forced>>
     \/ Raise("OSError")
     \/ Raise("EAGAIN")

\* The entry e goes through the body of the loop; diff is what "bzr diff" gave.
TakeEntry(e, diff) ==
  /\ entries' = entries \ {e}
  /\ UNCHANGED <<others, keys1, wide, cache_valid, pc, caller, path, target, got, raised,
                 retried, scans, pre_cache, pre_meta, result, answered, forced>>
  /\ IF Discarded(e, keys1)
     THEN UNCHANGED <<tree_cache, tree_meta_cache, tree_state>>
     ELSE /\ tree_meta_cache' =
               StoreMeta(tree_meta_cache, EntryPath(e), EntryMeta(e, diff))
          /\ IF caller = "update_file_state"
             THEN /\ tree_cache' = StoreState(tree_cache, EntryPath(e), EntryState(e))
                  /\ UNCHANGED tree_state
             ELSE /\ tree_state' = StoreState(tree_state, EntryPath(e), EntryState(e))
                  /\ UNCHANGED tree_cache

\* One turn of "for entry in entries"; the list comes out of a set, so the
\* order is any order.
ProcessEntry ==
  /\ pc = "loop"
  /\ \E e \in entries :
       IF NeedsDiff(e, keys1)
       THEN \/ \E diff \in {"match", "nomatch"} : TakeEntry(e, diff)
            \/ Raise("OSError")
            \/ Raise("EAGAIN")
       ELSE TakeEntry(e, "nomatch")

\* The loop is over.
EndOfLoop ==
  /\ pc = "loop"
  /\ entries = {}
  /\ Return

\* Every query scans, as get_files_to_commit does.
GetDirsAndFilesAlwaysScans ==
  /\ pc = "idle"
  /\ scans < MaxScans
  /\ Begin("_lookup_tree_cache", DotSlash, <<>>)

\* tree = self._get_tree_cache(directory)
GetDirsAndFiles == GetTreeCacheHit \/ GetTreeCacheMiss

Next ==
  \/ GetDirsAndFiles
  \/ UpdateFileState
  \/ Invalidate
  \/ GetModifiedFiles
  \/ ForceNormal
  \/ GetBranchRoot
  \/ ProcessEntry
  \/ EndOfLoop

Spec == Init /\ [][Next]_vars

\* One status query, on an output that holds any line of WideLines.
NextWide ==
  \/ GetDirsAndFiles
  \/ GetModifiedFiles
  \/ GetBranchRoot
  \/ ProcessEntry
  \/ EndOfLoop

SpecWide == InitWide /\ [][NextWide]_vars

----------------------------------------------------------------------------
\* Properties.

\* A step of the loop that takes entries and goes on.
LoopStep == pc = "loop" /\ pc' = "loop"

\* The loop of a scan into a new dict has taken every entry.
ScanOver == pc = "loop" /\ entries = {} /\ caller # "update_file_state"

Accepted(out) == {e \in out : ~Discarded(e, keys1)}

Highest(S) == CHOOSE s \in S : \A t \in S : Prio(t) <= Prio(s)

IsPrefix(s, t) == Len(s) <= Len(t) /\ SubSeq(t, 1, Len(s)) = s

Contains(t, s) ==
  \E i \in 0..(Len(t) - Len(s)) : SubSeq(t, i + 1, i + Len(s)) = s

\* C1: when a scan has taken all its lines, the dict holds exactly the paths
\* of the accepted lines, each with the highest state among the accepted
\* lines of that path, in whatever order the lines were taken.
C1_HighestStateWins ==
  ScanOver =>
    /\ Keys(tree_state) = {EntryPath(e) : e \in Accepted(got)}
    /\ \A p \in Keys(tree_state) :
         Get(tree_state, p, None) =
           Highest({EntryState(e) : e \in {a \in Accepted(got) : EntryPath(a) = p}})

C1_Witness ==
  /\ ScanOver
  /\ \E e1, e2 \in Accepted(got) :
       /\ EntryPath(e1) = EntryPath(e2)
       /\ Prio(EntryState(e1)) < Prio(EntryState(e2))
       /\ Get(tree_state, EntryPath(e1), None) = EntryState(e2)

\* C2: an operation that ended with an exception has left the tree-state
\* cache and the metadata map as they were when it began.
C2_AllOrNothing ==
  (pc = "idle" /\ raised # "none") =>
    (tree_cache = pre_cache /\ tree_meta_cache = pre_meta)

\* C3: after update_file_state(target) got no line for an existing file, the
\* state of target is NORMAL and every other path has the state, or the
\* absence, it had before.
C3_EmptyRefreshResets ==
  forced =>
    /\ Get(tree_cache, target, None) = STATE_NORMAL
    /\ \A q \in (Keys(tree_cache) \cup Keys(pre_cache)) \ {target} :
         Get(tree_cache, q, None) = Get(pre_cache, q, None)

C3_Witness ==
  /\ forced
  /\ Get(pre_cache, target, None) = STATE_MODIFIED
  /\ Get(tree_cache, target, None) = STATE_NORMAL
  /\ Keys(tree_cache) # {target}

\* C4: a status query that follows a status query starts no scan, and returns
\* the dict the query before it returned.
C4_SecondQueryFromCache ==
  [][answered # "none" =>
       /\ caller' # "_lookup_tree_cache"
       /\ answered' = "again" => (result' = result /\ scans' = scans)]_vars

C4_Witness == answered = "again" /\ result # {} /\ result = tree_cache

\* A character of the code is no key of the state map of its column.
UnknownCode(e) ==
  \/ Len(e.code) # 3
  \/ e.code[1] \notin Keys(state_1_map)
  \/ e.code[2] \notin Keys(state_2_map)
  \/ e.code[3] \notin Keys(state_3_map)

\* C5: a line with a character that is no key of its column's state map
\* changes neither dict and raises nothing.
C5_UnknownCodeDiscarded ==
  [][/\ LoopStep =>
          \A e \in entries \ entries' :
            UnknownCode(e) => UNCHANGED <<tree_state, tree_cache, tree_meta_cache>>
     /\ (pc = "loop" /\ entries # {} /\ \A e \in entries : UnknownCode(e)) =>
          pc' = "loop"]_vars

\* The state of the line is RENAMED and no "=> <new>" is in its text, or it
\* is CONFLICT and no "conflict in <path>" is in its text.
LacksAnnotation(e) ==
  \/ /\ ColumnState(e.code) = STATE_RENAMED
     /\ \A i \in 1..(Len(e.name) - 1) : e.name[i] # "=>"
  \/ /\ ColumnState(e.code) = STATE_CONFLICT
     /\ \A i \in 1..(Len(e.name) - 2) :
          ~(e.name[i] = "conflict" /\ e.name[i + 1] = "in")

\* C6: a RENAMED line without "=> <new>" and a CONFLICT line without
\* "conflict in <path>" change neither dict.
C6_UnannotatedDiscarded ==
  [][LoopStep =>
       \A e \in entries \ entries' :
         LacksAnnotation(e) =>
           UNCHANGED <<tree_state, tree_cache, tree_meta_cache>>]_vars

C6_Witness ==
  /\ ScanOver
  /\ tree_state = {}
  /\ tree_meta_cache = {}
  /\ \E e \in got :
       ValidStatus(e.code, keys1) /\ e.code[2] = "K" /\ e.name = NameBArrow

ExecLine(e) == ~Discarded(e, keys1) /\ e.code[3] \in {"*", "/", "@"}

\* Such a line, every character of whose code is a key of its column's map.
KnownExecLine(e) == ExecLine(e) /\ ~UnknownCode(e)

\* C8 as claimed: the state stored for a new path by a line with an
\* executable-bit code is that of columns 1-2 when it is higher than
\* MODIFIED, and MODIFIED otherwise.
C8_FoldsEveryWeakerState ==
  [][LoopStep =>
       \A e \in entries \ entries' :
         KnownExecLine(e) =>
           \A p \in Keys(tree_state') \ Keys(tree_state) :
             Get(tree_state', p, None) =
               IF Prio(ColumnState(e.code)) > Prio(STATE_MODIFIED)
               THEN ColumnState(e.code)
               ELSE STATE_MODIFIED]_vars

\* C8, amended: the state stored for a new path by a line with an
\* executable-bit code is MODIFIED when columns 1-2 gave NORMAL, and the
\* state of columns 1-2 in every other case.
C8_FoldsNormalOnly ==
  [][LoopStep =>
       \A e \in entries \ entries' :
         ExecLine(e) =>
           \A p \in Keys(tree_state') \ Keys(tree_state) :
             Get(tree_state', p, None) =
               IF ColumnState(e.code) = STATE_NORMAL
               THEN STATE_MODIFIED
               ELSE ColumnState(e.code)]_vars

C8_Witness ==
  /\ pc = "loop"
  /\ \E e \in got \ entries :
       ExecLine(e) /\ e.code = <<" ", "N", "*">> /\ e.name = NameB
  /\ Get(tree_state, PathB, None) = STATE_NEW

\* C9: a metadata string that a line of this scan stored is still contained
\* in the string of its path after every later line of the scan.
C9_MetadataAccumulates ==
  [][LoopStep =>
       \A p \in Keys(tree_meta_cache) :
         Get(tree_meta_cache, p, <<>>) # Get(pre_meta, p, <<>>) =>
           Contains(Get(tree_meta_cache', p, <<>>), Get(tree_meta_cache, p, <<>>))]_vars

\* C10: no operation ends with the EAGAIN failure.
C10_EagainNeverSurfaces == raised # "EAGAIN"


\* ---------------------------------------------------------------------------
\* update_actions_for_paths: the actions a selection enables.
\* ---------------------------------------------------------------------------

Values(d) == {e[2] : e \in d}

ActionNames ==
  {"VcCompare", "VcCommit", "VcUpdate", "VcPush", "VcAdd", "VcResolved",
   "VcRemove", "VcRevert"}

VcRoot == <<BranchRoot>>

\* The same with the root test of VcRemove left out.
UpdateActionsRemoveIgnoresRoot(path_states, actions) ==
  LET states == Values(path_states)
      a1 == Put(actions, "VcCompare", path_states # {})
      a2 == Put(a1, "VcCommit",
                (\A s \in states : s \notin {STATE_NONE, STATE_IGNORED}))
      a3 == Put(a2, "VcUpdate", TRUE)
      a4 == Put(a3, "VcPush", TRUE)
      a5 == Put(a4, "VcAdd",
                (\A s \in states : s \notin {STATE_NORMAL, STATE_REMOVED}))
      a6 == Put(a5, "VcResolved",
                (\A s \in states : s = STATE_CONFLICT))
      a7 == Put(a6, "VcRemove",
                (\A s \in states : s \notin {STATE_NONE, STATE_IGNORED, STATE_REMOVED}))
  IN  Put(a7, "VcRevert",
                (\A s \in states : s \notin {STATE_NONE, STATE_NORMAL, STATE_IGNORED}))

update_actions_for_paths(path_states, actions) ==
  LET states == Values(path_states)
      a1 == Put(actions, "VcCompare", path_states # {})
      a2 == Put(a1, "VcCommit",
                (\A s \in states : s \notin {STATE_NONE, STATE_IGNORED}))
      a3 == Put(a2, "VcUpdate", TRUE)
      a4 == Put(a3, "VcPush", TRUE)
      a5 == Put(a4, "VcAdd",
                (\A s \in states : s \notin {STATE_NORMAL, STATE_REMOVED}))
      a6 == Put(a5, "VcResolved",
                (\A s \in states : s = STATE_CONFLICT))
      a7 == Put(a6, "VcRemove",
                (\A s \in states : s \notin {STATE_NONE, STATE_IGNORED, STATE_REMOVED})
                /\ VcRoot \notin Keys(path_states))
  IN  Put(a7, "VcRevert",
                (\A s \in states : s \notin {STATE_NONE, STATE_NORMAL, STATE_IGNORED}))

\* The paths a selection can hold, and the selections: every mapping of a set
\* of paths to states.
SelectablePaths == {VcRoot, PathA, PathB}

Selections ==
  UNION {{{<<p, f[p]>> : p \in P} : f \in [P -> States]} :
         P \in SUBSET SelectablePaths}

\* What the caller's dict of actions holds before the call.
PriorActions ==
  {{}, {<<n, TRUE>> : n \in ActionNames}, {<<n, FALSE>> : n \in ActionNames}}

\* No scan was made and none is under way.
ScanIdle == InitCommon /\ wide = FALSE /\ scans = 0

InitActions ==
  /\ ScanIdle
  /\ call \in {[op |-> "update_actions_for_paths", path_states |-> ps,
                actions |-> a] : ps \in Selections, a \in PriorActions}
  /\ ret = NoRet
  /\ popens = 0
  /\ tempfiles = {}
  /\ InitWindow

UpdateActionsForPaths ==
  /\ call.op = "update_actions_for_paths"
  /\ ret = NoRet
  /\ ret' = Returned(update_actions_for_paths(call.path_states, call.actions))
  /\ UNCHANGED <<scanvars, call, popens, tempfiles, winvars>>

NextActions == UpdateActionsForPaths

SpecActions == InitActions /\ [][NextActions]_vars

ActionsSet == call.op = "update_actions_for_paths" /\ ret.kind = "return"

\* C11: for every selection the call sets compare iff the selection is not
\* empty, commit iff no state is NONE or IGNORED, add iff no state is NORMAL or
\* REMOVED, remove iff no state is NONE, IGNORED or REMOVED and the root is not
\* selected, revert iff no state is NONE, NORMAL or IGNORED, update and push
\* always; the eight entries are all the result holds, whatever the dict held
\* before, and one CONFLICT with one MODIFIED path gives commit without resolve.
C11_ActionsFollowSelection ==
  ActionsSet =>
    LET sel == call.path_states
        st == Values(sel)
        a == ret.value
    IN  /\ Keys(a) = ActionNames
        /\ \A n \in ActionNames : Cardinality({e \in a : e[1] = n}) = 1
        /\ <<"VcCompare", sel # {}>> \in a
        /\ <<"VcCommit", st \cap {STATE_NONE, STATE_IGNORED} = {}>> \in a
        /\ <<"VcAdd", st \cap {STATE_NORMAL, STATE_REMOVED} = {}>> \in a
        /\ <<"VcRemove",
             st \cap {STATE_NONE, STATE_IGNORED, STATE_REMOVED} = {}
             /\ ~(\E e \in sel : e[1] = VcRoot)>> \in a
        /\ <<"VcRevert",
             st \cap {STATE_NONE, STATE_NORMAL, STATE_IGNORED} = {}>> \in a
        /\ <<"VcUpdate", TRUE>> \in a
        /\ <<"VcPush", TRUE>> \in a
        /\ (st = {STATE_CONFLICT, STATE_MODIFIED} =>
              <<"VcResolved", FALSE>> \in a /\ <<"VcCommit", TRUE>> \in a)

C11_Witness ==
  /\ ActionsSet
  /\ call.path_states = {<<PathA, STATE_CONFLICT>>, <<PathB, STATE_MODIFIED>>}
  /\ call.actions = {<<n, FALSE>> : n \in ActionNames}
  /\ <<"VcResolved", FALSE>> \in ret.value
  /\ <<"VcCommit", TRUE>> \in ret.value

\* C12: resolve is enabled exactly when the selection is not empty and every
\* selected state is CONFLICT.
C12_ResolveNeedsConflict ==
  ActionsSet =>
    <<"VcResolved",
      call.path_states # {}
      /\ \A e \in call.path_states : e[2] = STATE_CONFLICT>> \in ret.value


\* ---------------------------------------------------------------------------
\* get_files_to_commit: the files a commit of the given paths takes.
\* ---------------------------------------------------------------------------

MaxArgs == 2

Range(q) == {q[i] : i \in DOMAIN q}

\* The lines of an output, in each order the tool can print them.
Orderings(S) ==
  {q \in [1..Cardinality(S) -> S] : \A i, j \in DOMAIN q : q[i] = q[j] => i = j}

\* The loop of _update_tree_state_cache from its first line to its last, for a
\* run in which no process creation fails: the states it leaves in tree_state.
RECURSIVE ScanStates(_, _, _)
ScanStates(lines, tree, k) ==
  IF lines = <<>> THEN tree
  ELSE LET e == Head(lines)
       IN  ScanStates(Tail(lines),
                      IF Discarded(e, k) THEN tree
                      ELSE StoreState(tree, EntryPath(e), EntryState(e)),
                      k)

\* The same loop: the texts it leaves in self._tree_meta_cache.
RECURSIVE ScanMetas(_, _, _, _)
ScanMetas(lines, metas, k, diff) ==
  IF lines = <<>> THEN metas
  ELSE LET e == Head(lines)
       IN  ScanMetas(Tail(lines),
                     IF Discarded(e, k) THEN metas
                     ELSE StoreMeta(metas, EntryPath(e), EntryMeta(e, diff)),
                     k, diff)

\* _lookup_tree_cache(rootdir): a scan of './' into a new dict; rootdir is
\* not used.
LookupTreeCache(rootdir, lines, k) == ScanStates(lines, {}, k)

commit_statuses == {STATE_MODIFIED, STATE_RENAMED, STATE_NEW, STATE_REMOVED}

\* The directories of the working copy; every other path is a file.
SubDir == <<BranchRoot, "sub">>
Dirs == {VcRoot, SubDir}
IsDir(p) == p \in Dirs

\* os.path.relpath(p, self.root) of a path below the root.
RelPath(p, root) == IF IsPrefix(root, p) /\ p # root THEN SubSeq(p, Len(root) + 1, Len(p)) ELSE p

\* The order of Python's strings on the paths of the model: an absolute path
\* begins with the separator, which sorts before every letter.
WordRank(w) ==
  CASE w = "/" -> 0
    [] w = BranchRoot -> 1
    [] w = "a" -> 2
    [] w = "b" -> 3
    [] w = "sub" -> 4
    [] OTHER -> 5

RECURSIVE PathLess(_, _)
PathLess(p, q) ==
  IF q = <<>> THEN FALSE
  ELSE IF p = <<>> THEN TRUE
  ELSE IF Head(p) = Head(q) THEN PathLess(Tail(p), Tail(q))
  ELSE WordRank(Head(p)) < WordRank(Head(q))

\* sorted(list(S)) of a set S.
RECURSIVE Sorted(_)
Sorted(S) ==
  IF S = {} THEN <<>>
  ELSE LET m == CHOOSE x \in S : \A y \in S : ~PathLess(y, x)
       IN  <<m>> \o Sorted(S \ {m})

\* names = [x for x, y in entries.items() if y in self.commit_statuses]
CommitNames(tree) == Sorted({e[1] : e \in {x \in tree : x[2] \in commit_statuses}})

\* files, after the loop over paths.
RECURSIVE CommitFiles(_, _, _)
CommitFiles(paths, lines, k) ==
  IF paths = <<>> THEN <<>>
  ELSE (IF IsDir(Head(paths))
        THEN CommitNames(LookupTreeCache(Head(paths), lines, k))
        ELSE <<RelPath(Head(paths), VcRoot)>>)
       \o CommitFiles(Tail(paths), lines, k)

\* The list is returned as the loop left it.
GetFilesToCommitUnsorted(paths, lines, k) == CommitFiles(paths, lines, k)

get_files_to_commit(paths, lines, k) == Sorted(Range(CommitFiles(paths, lines, k)))

CommitArgs == {VcRoot, SubDir, PathA, PathB}

SeqsUpTo(S, n) == UNION {[1..m -> S] : m \in 0..n}

InitCommit ==
  /\ ScanIdle
  /\ call \in {[op |-> "get_files_to_commit", paths |-> ps, status |-> out] :
               ps \in SeqsUpTo(CommitArgs, MaxArgs), out \in Outputs(FALSE)}
  /\ ret = NoRet
  /\ popens = 0
  /\ tempfiles = {}
  /\ InitWindow

\* The call, for a run in which no process creation fails; the status of the
\* working copy is the same for each scan of the call.
GetFilesToCommit ==
  /\ call.op = "get_files_to_commit"
  /\ ret = NoRet
  /\ \E lines \in Orderings(call.status), diff \in {"match", "nomatch"} :
       /\ ret' = Returned(get_files_to_commit(call.paths, lines, keys1))
       /\ tree_meta_cache' =
            (IF \E i \in DOMAIN call.paths : IsDir(call.paths[i])
             THEN ScanMetas(lines, tree_meta_cache, keys1, diff)
             ELSE tree_meta_cache)
  /\ UNCHANGED <<keys1, wide, cache_valid, tree_cache, pc, caller, path,
                 target, tree_state, got, entries, raised, retried, scans,
                 pre_cache, pre_meta, result, answered, forced, call, popens,
                 tempfiles, winvars>>

NextCommit == GetFilesToCommit

SpecCommit == InitCommit /\ [][NextCommit]_vars

CommitReturned == call.op = "get_files_to_commit" /\ ret.kind = "return"

\* The states of the working copy during the call.
CommitTree == ScanStates(CHOOSE q \in Orderings(call.status) : TRUE, {}, keys1)

Under(p, dir) == IsPrefix(dir, p) /\ p # dir

\* C13: the result holds, for each directory argument, exactly the paths under
\* that directory whose state is MODIFIED, RENAMED, NEW or REMOVED, and each
\* other argument relative to the root; no path outside a directory argument
\* comes from its expansion.
C13_DirectoryExpansion ==
  CommitReturned =>
    LET args == Range(call.paths)
    IN  Range(ret.value) =
          {p \in Keys(CommitTree) :
             /\ Get(CommitTree, p, None) \in commit_statuses
             /\ \E d \in args : IsDir(d) /\ Under(p, d)}
          \cup {RelPath(f, VcRoot) : f \in {x \in args : ~IsDir(x)}}

StrictlyAscending(q) == \A i, j \in DOMAIN q : i < j => PathLess(q[i], q[j])

\* C14: the result is strictly ascending, and every sequence of the same
\* arguments, in any order and with any repetition, gives the same result
\* while the status of the working copy is the same.
C14_SortedAndOrderFree ==
  CommitReturned =>
    /\ StrictlyAscending(ret.value)
    /\ \A qs \in {q \in SeqsUpTo(CommitArgs, MaxArgs) :
                    Range(q) = Range(call.paths)} :
         \A lines \in Orderings(call.status) :
           get_files_to_commit(qs, lines, keys1) = ret.value

C14_Witness ==
  /\ CommitReturned
  /\ call.paths = <<PathB, VcRoot>>
  /\ Len(ret.value) >= 3


\* ---------------------------------------------------------------------------
\* get_path_for_repo_file and get_path_for_conflict.  Their argument is a
\* string, and the test is on its characters: a string is the sequence of
\* its pieces, the separator being a piece of its own.
\* ---------------------------------------------------------------------------

MaxTemp == 1

Sep == "/"
RootStr == <<BranchRoot>>

\* str.startswith
StartsWith(str, prefix) == IsPrefix(prefix, str)

\* The test without the separator.
InRepositoryNoSep(str) == StartsWith(str, RootStr)

\* path.startswith(self.root + os.path.sep)
InRepository(str) == StartsWith(str, RootStr \o <<Sep>>)

CONFLICT_BASE == "BASE"
CONFLICT_OTHER == "OTHER"
CONFLICT_THIS == "THIS"
CONFLICT_MERGED == "MERGED"
ConflictSides == {CONFLICT_BASE, CONFLICT_OTHER, CONFLICT_THIS, CONFLICT_MERGED}

\* MERGED has a suffix of its own.
ConflictMapMergedSuffix ==
  {<<CONFLICT_BASE, <<".BASE">>>>, <<CONFLICT_OTHER, <<".OTHER">>>>,
   <<CONFLICT_THIS, <<".THIS">>>>, <<CONFLICT_MERGED, <<".MERGED">>>>}

conflict_map ==
  {<<CONFLICT_BASE, <<".BASE">>>>, <<CONFLICT_OTHER, <<".OTHER">>>>,
   <<CONFLICT_THIS, <<".THIS">>>>, <<CONFLICT_MERGED, <<>>>>}

\* The strings the two methods are called with: a file below the root, the
\* root with and without a trailing separator, a file of the sibling "root2",
\* a file elsewhere.
PathStrings ==
  {<<BranchRoot, Sep, "a">>, <<BranchRoot>>, <<BranchRoot, Sep>>,
   <<BranchRoot, "2", Sep, "a">>, <<"other", Sep, "a">>}

Commits == {None, "7"}

\* What the creation of the process of "bzr cat" comes to: the tool prints
\* the file, the tool ends with a non-zero exit and prints nothing on its
\* standard output, the tool cannot be started.
ToolOutcomes == {"prints", "nonzero", "missing"}

FileText == <<"text">>

\* path = path[len(self.root) + 1:]; args = [self.CMD, "cat", path] (+ -r)
CatArgs(str, commit) ==
  <<"bzr", "cat", SubSeq(str, Len(RootStr) + 2, Len(str))>>
  \o (IF commit # None THEN <<"-r" \o commit>> ELSE <<>>)

\* The name tempfile.NamedTemporaryFile gives: one no file has yet.
NewTempName == Cardinality(tempfiles) + 1

\* The two methods are called for the rows of a view, which a lookup has
\* filled before.
GetPathForRepoFile ==
  /\ pc = "idle"
  /\ cache_valid
  /\ \E str \in PathStrings, commit \in Commits, tool \in ToolOutcomes :
       /\ (InRepository(str) /\ tool # "missing") =>
            Cardinality(tempfiles) < MaxTemp
       /\ call' = [op |-> "get_path_for_repo_file", path |-> str,
                   commit |-> commit, tool |-> tool,
                   args |-> CatArgs(str, commit)]
       /\ IF ~InRepository(str)
          THEN /\ ret' = Raised("InvalidVCPath")
               /\ UNCHANGED <<popens, tempfiles>>
          ELSE IF tool = "missing"
          THEN /\ ret' = Raised("OSError")
               /\ UNCHANGED <<popens, tempfiles>>
          ELSE /\ popens' = popens + 1
               /\ tempfiles' =
                    Put(tempfiles, NewTempName,
                        IF tool = "prints" THEN FileText ELSE <<>>)
               /\ ret' = Returned(NewTempName)
  /\ UNCHANGED <<scanvars, winvars>>

GetPathForConflict ==
  /\ pc = "idle"
  /\ cache_valid
  /\ \E str \in PathStrings, conflict \in ConflictSides :
       /\ call' = [op |-> "get_path_for_conflict", path |-> str,
                   conflict |-> conflict]
       /\ ret' = (IF ~InRepository(str)
                  THEN Raised("InvalidVCPath")
                  ELSE Returned(<<str \o Get(conflict_map, conflict, None),
                                  FALSE>>))
  /\ UNCHANGED <<scanvars, popens, tempfiles, winvars>>

\* The first lookup of a session, which scans, and the calls of the two
\* methods that follow it.
NextQueries ==
  \/ GetTreeCacheMiss
  \/ GetModifiedFiles
  \/ GetBranchRoot
  \/ ProcessEntry
  \/ EndOfLoop
  \/ GetPathForRepoFile
  \/ GetPathForConflict

SpecQueries == Init /\ [][NextQueries]_vars

PathCall ==
  /\ call' # call \/ ret' # ret
  /\ call'.op \in {"get_path_for_repo_file", "get_path_for_conflict"}

\* The string names a path strictly below the root.
BelowRoot(str) ==
  /\ Len(str) > Len(RootStr)
  /\ \A i \in 1..Len(RootStr) : str[i] = RootStr[i]
  /\ str[Len(RootStr) + 1] = Sep

\* C15: both methods raise InvalidVCPath exactly when the path does not begin
\* with the root followed by the separator (the root itself and a sibling
\* "root2" are rejected), and a call that raises it starts no process and
\* creates no temporary file.
C15_InvalidPathRejected ==
  [][PathCall =>
       /\ (ret' = Raised("InvalidVCPath")) <=> ~BelowRoot(call'.path)
       /\ ret' = Raised("InvalidVCPath") =>
            /\ call'.path \in {<<BranchRoot>>, <<BranchRoot, "2", Sep, "a">>,
                               <<"other", Sep, "a">>}
            /\ UNCHANGED <<popens, tempfiles>>]_vars

C15_Witness ==
  /\ call.op = "get_path_for_repo_file"
  /\ call.path = <<BranchRoot, "2", Sep, "a">>
  /\ call.tool = "prints"
  /\ ret = Raised("InvalidVCPath")
  /\ popens = 1
  /\ tempfiles # {}

SuffixOf(side) ==
  CASE side = CONFLICT_BASE -> <<".BASE">>
    [] side = CONFLICT_OTHER -> <<".OTHER">>
    [] side = CONFLICT_THIS -> <<".THIS">>
    [] side = CONFLICT_MERGED -> <<>>

\* C16: for a path below the root get_path_for_conflict returns the path
\* followed by .BASE, .OTHER, .THIS or nothing (MERGED gives the path itself),
\* and changes neither cache nor any other state.
C16_ConflictPathArithmetic ==
  [][(PathCall /\ call'.op = "get_path_for_conflict" /\ BelowRoot(call'.path)) =>
       /\ ret'.kind = "return"
       /\ ret'.value[1] = call'.path \o SuffixOf(call'.conflict)
       /\ (call'.conflict = CONFLICT_MERGED => ret'.value[1] = call'.path)
       /\ UNCHANGED <<scanvars, popens, tempfiles>>]_vars

C16_Witness ==
  /\ call.op = "get_path_for_conflict"
  /\ call.path = <<BranchRoot, Sep, "a">>
  /\ call.conflict = CONFLICT_MERGED
  /\ ret = Returned(<<call.path, FALSE>>)
  /\ tree_cache # {}
  /\ tempfiles # {}

\* C17: for a path below the root get_path_for_repo_file returns the name of
\* a temporary file that did not exist before, whether the tool printed the
\* file, ended with a non-zero exit or could not be started; when the tool
\* failed the file is empty.
C17_AlwaysATempFile ==
  [][(PathCall /\ call'.op = "get_path_for_repo_file" /\ BelowRoot(call'.path)) =>
       /\ ret'.kind = "return"
       /\ ret'.value \in Keys(tempfiles') \ Keys(tempfiles)
       /\ (call'.tool # "prints" => Get(tempfiles', ret'.value, None) = <<>>)]_vars


\* ---------------------------------------------------------------------------
\* _get_dirsandfiles: the entries of one directory of the view.
\* ---------------------------------------------------------------------------

\* _vc.File(path, name, state, options) and _vc.Dir(...); an entry made
\* without options has none.
Entry(p, name, state, options) ==
  [path |-> p, name |-> name, state |-> state, options |-> options]

\* os.path.split(path)
Split(p) == <<SubSeq(p, 1, Len(p) - 1), p[Len(p)]>>

\* The name "sub/c", by its components.
NameSubC == <<"sub", "c">>
PathSubC == <<BranchRoot, "sub", "c">>

\* The lines of the status at the time of the lookup.
LookupLines ==
  {Line(" ", "D", " ", NameA), Line(" ", "D", " ", NameSubC),
   Line(" ", "M", "*", NameB), Line("R", " ", " ", NameAtoB),
   Line(" ", "M", " ", NameA)}

\* What the caller found in the directory: (name, path) pairs, in the order
\* of the listing.
Listings ==
  {[directory |-> VcRoot, dirs |-> d, files |-> f] :
     d \in {<<>>, <<<<"sub", SubDir>>>>},
     f \in {<<>>, <<<<"a", PathA>>>>, <<<<"b", PathB>>>>,
            <<<<"a", PathA>>, <<"b", PathB>>>>}}
  \cup {[directory |-> SubDir, dirs |-> <<>>, files |-> f] :
          f \in {<<>>, <<<<"c", PathSubC>>>>}}

\* The two loops over the listing.
Listed(items, tree, metas) ==
  [i \in DOMAIN items |->
     Entry(items[i][2], items[i][1], Get(tree, items[i][2], STATE_NORMAL),
           Get(metas, items[i][2], <<>>))]

\* The third loop without its test of the folder.
RECURSIVE GoneAnyFolder(_, _)
GoneAnyFolder(items, directory) ==
  IF items = <<>> THEN <<>>
  ELSE LET p == Head(items)[1]
           state == Head(items)[2]
       IN  (IF state \in {STATE_REMOVED, STATE_MISSING}
            THEN <<Entry(p, Split(p)[2], state, None)>>
            ELSE <<>>)
           \o GoneAnyFolder(Tail(items), directory)

\* The entries of the third loop, for the items of tree in the given order.
RECURSIVE Gone(_, _)
Gone(items, directory) ==
  IF items = <<>> THEN <<>>
  ELSE LET p == Head(items)[1]
           state == Head(items)[2]
       IN  (IF state \in {STATE_REMOVED, STATE_MISSING}
               /\ Split(p)[1] = directory
            THEN <<Entry(p, Split(p)[2], state, None)>>
            ELSE <<>>)
           \o Gone(Tail(items), directory)

InitLookup ==
  /\ ScanIdle
  /\ call \in {[op |-> "_get_dirsandfiles", directory |-> l.directory,
                dirs |-> l.dirs, files |-> l.files, status |-> out] :
               l \in Listings, out \in SubsetsUpTo(LookupLines, MaxLines)}
  /\ ret = NoRet
  /\ popens = 0
  /\ tempfiles = {}
  /\ InitWindow

\* The first lookup of a session, for a run in which no process creation
\* fails: _get_tree_cache scans and stores the tree, the three loops follow.
GetDirsAndFilesEntries ==
  /\ call.op = "_get_dirsandfiles"
  /\ ret = NoRet
  /\ ~cache_valid
  /\ \E lines \in Orderings(call.status), diff \in {"match", "nomatch"} :
       LET tree == ScanStates(lines, {}, keys1)
           metas == ScanMetas(lines, tree_meta_cache, keys1, diff)
       IN  /\ tree_cache' = tree
           /\ cache_valid' = TRUE
           /\ tree_meta_cache' = metas
           /\ \E items \in Orderings(tree) :
                ret' = Returned([dirs |-> Listed(call.dirs, tree, metas),
                                 files |-> Listed(call.files, tree, metas)
                                           \o Gone(items, call.directory)])
  /\ UNCHANGED <<keys1, wide, pc, caller, path, target, tree_state, got,
                 entries, raised, retried, scans, pre_cache, pre_meta, result,
                 answered, forced, call, popens, tempfiles, winvars>>

NextLookup == GetDirsAndFilesEntries

SpecLookup == InitLookup /\ [][NextLookup]_vars

LookupReturned == call.op = "_get_dirsandfiles" /\ ret.kind = "return"

\* The entries that follow the listed ones.
Added ==
  {ret.value.files[i] : i \in (Len(call.files) + 1)..Len(ret.value.files)}

\* C18: the lookup returns one entry per listed file and directory, with the
\* cached state (NORMAL when there is none) and the metadata of its path, and
\* after them one file entry for each cached path that is REMOVED or MISSING
\* and whose parent is the queried directory; a removed or missing path of
\* another directory is not added.
C18_LookupEntries ==
  LookupReturned =>
    LET r == ret.value
    IN  /\ Len(r.dirs) = Len(call.dirs)
        /\ \A i \in DOMAIN call.dirs :
             /\ r.dirs[i].path = call.dirs[i][2]
             /\ r.dirs[i].name = call.dirs[i][1]
             /\ r.dirs[i].state =
                  (IF \E e \in tree_cache : e[1] = r.dirs[i].path
                   THEN (CHOOSE e \in tree_cache : e[1] = r.dirs[i].path)[2]
                   ELSE STATE_NORMAL)
             /\ \A e \in tree_meta_cache :
                  e[1] = r.dirs[i].path => r.dirs[i].options = e[2]
        /\ Len(r.files) >= Len(call.files)
        /\ \A i \in DOMAIN call.files :
             /\ r.files[i].path = call.files[i][2]
             /\ r.files[i].name = call.files[i][1]
             /\ r.files[i].state =
                  (IF \E e \in tree_cache : e[1] = r.files[i].path
                   THEN (CHOOSE e \in tree_cache : e[1] = r.files[i].path)[2]
                   ELSE STATE_NORMAL)
             /\ \A e \in tree_meta_cache :
                  e[1] = r.files[i].path => r.files[i].options = e[2]
        /\ {<<x.path, x.state>> : x \in Added} =
             {e \in tree_cache :
                /\ e[2] \in {STATE_REMOVED, STATE_MISSING}
                /\ Len(e[1]) = Len(call.directory) + 1
                /\ IsPrefix(call.directory, e[1])}
        /\ Cardinality(Added) = Len(r.files) - Len(call.files)

C18_Witness ==
  /\ LookupReturned
  /\ call.directory = VcRoot
  /\ call.files = <<<<"b", PathB>>>>
  /\ <<PathA, STATE_REMOVED>> \in tree_cache
  /\ <<PathSubC, STATE_REMOVED>> \in tree_cache
  /\ Len(ret.value.files) = 2
  /\ ret.value.files[1].state = STATE_NORMAL
  /\ ret.value.files[2].path = PathA


\* ---------------------------------------------------------------------------
\* The window: its scheduler, the idle callback that drives it, the spinner
\* and the Stop action.
\* ---------------------------------------------------------------------------

MaxAdds == 3
MaxChildTasks == 2

\* The window's scheduler is a FifoScheduler.
SchedulerClassFifo == "FifoScheduler"

\* self.scheduler = task.LifoScheduler()
scheduler_class == "LifoScheduler"

\* The task the scheduler of that class runs next: the newest of a
\* LifoScheduler, the oldest of any other.
NextTask(ts) == IF scheduler_class = "LifoScheduler" THEN ts[Len(ts)] ELSE ts[1]

Without(q, x) == SelectSeq(q, LAMBDA y : y # x)

\* A page's scheduler as a task of the window's scheduler (on_switch_page):
\* the negative of the page's number; the other tasks are positive.
SchedTask(p) == 0 - p
PageOf(t) == 0 - t

\* add_task of a task that may be queued already: it becomes the newest.
Requeued(ts, t) == Append(Without(ts, t), t)

\* scheduler.tasks_pending(): a task of its own or of a registered child.
TasksPending(ts, scheds, pend) ==
  ts # <<>> \/ \E i \in DOMAIN scheds : pend[scheds[i]] > 0

hookvars == <<idle_hooked, idle_sources, spinner, stop_sensitive>>

\* The id GLib.idle_add returns: one that no installed callback has.
NewSource ==
  CHOOSE n \in 1..(Cardinality(idle_sources) + 1) :
    /\ n \notin idle_sources
    /\ \A m \in 1..(n - 1) : m \in idle_sources

\* The body without the line that makes Stop sensitive.
ReactionLeavesStop ==
  /\ spinner' = [spinner EXCEPT !.shown = TRUE, !.spinning = TRUE]
  /\ UNCHANGED stop_sensitive
  /\ idle_sources' = idle_sources \cup {NewSource}
  /\ idle_hooked' = <<NewSource>>
  /\ emitted' = "reacted"

\* The body of "if not self.idle_hooked".
Reaction ==
  /\ spinner' = [spinner EXCEPT !.shown = TRUE, !.spinning = TRUE]
  /\ stop_sensitive' = TRUE
  /\ idle_sources' = idle_sources \cup {NewSource}
  /\ idle_hooked' = <<NewSource>>
  /\ emitted' = "reacted"

\* The handler without its test.
OnSchedulerRunnableUnguarded == Reaction

on_scheduler_runnable ==
  IF ~Truthy(idle_hooked)
  THEN Reaction
  ELSE UNCHANGED hookvars /\ emitted' = "ignored"

\* The scheduler's "runnable" signal: given when the scheduler had nothing
\* pending and now has; the window's handler runs at once.
Runnable(was, now) ==
  IF ~was /\ now
  THEN on_scheduler_runnable
  ELSE UNCHANGED hookvars /\ emitted' = "none"

\* self.scheduler.add_task(...): a new task, the adds-th one.
AddTask ==
  /\ adds < MaxAdds
  /\ tasks' = Append(tasks, adds + 1)
  /\ adds' = adds + 1
  /\ Runnable(TasksPending(tasks, schedulers, pending), TRUE)
  /\ UNCHANGED <<schedulers, turn, notebook, pages, pending, executed, cleanup>>
  /\ UNCHANGED <<scanvars, callvars>>

\* on_switch_page for a page of the notebook: the page's scheduler is given
\* to the window's scheduler as a task.
SwitchPage ==
  \E p \in Pages :
    /\ pages[p] = "open"
    /\ tasks' = Requeued(tasks, SchedTask(p))
    /\ Runnable(TasksPending(tasks, schedulers, pending), TRUE)
    /\ UNCHANGED <<schedulers, turn, notebook, pages, pending, adds, executed,
                   cleanup>>
    /\ UNCHANGED <<scanvars, callvars>>

\* _append_page: the page enters the notebook, which may switch to it, and
\* its scheduler is registered.
AppendPage ==
  \E p \in Pages, focus \in BOOLEAN :
    /\ pages[p] = "new"
    /\ pages' = [pages EXCEPT ![p] = "open"]
    /\ notebook' = Append(notebook, p)
    /\ tasks' = IF focus THEN Requeued(tasks, SchedTask(p)) ELSE tasks
    /\ schedulers' = Append(schedulers, p)
    /\ Runnable(TasksPending(tasks, schedulers, pending),
                focus \/ TasksPending(tasks, Append(schedulers, p), pending))
    /\ UNCHANGED <<turn, pending, adds, executed, cleanup>>
    /\ UNCHANGED <<scanvars, callvars>>

\* try_remove_page without the call of remove_scheduler.
TryRemovePageKeepsScheduler ==
  \E p \in Pages, response \in {"OK", "CANCEL"} :
    /\ pages[p] = "open"
    /\ IF response = "CANCEL"
       THEN UNCHANGED <<pages, notebook>>
       ELSE /\ pages' = [pages EXCEPT ![p] = "closed"]
            /\ notebook' = Without(notebook, p)
    /\ UNCHANGED hookvars
    /\ emitted' = "none"
    /\ UNCHANGED <<tasks, schedulers, turn, pending, adds, executed, cleanup>>
    /\ UNCHANGED <<scanvars, callvars>>

\* try_remove_page: unless the page answers with CANCEL, its scheduler is
\* removed and the page leaves the notebook.
TryRemovePage ==
  \E p \in Pages, response \in {"OK", "CANCEL"} :
    /\ pages[p] = "open"
    /\ IF response = "CANCEL"
       THEN UNCHANGED <<pages, notebook, schedulers, turn, tasks>>
       ELSE /\ pages' = [pages EXCEPT ![p] = "closed"]
            /\ notebook' = Without(notebook, p)
            /\ schedulers' = Without(schedulers, p)
            /\ tasks' = Without(tasks, SchedTask(p))
            /\ turn' = 1
    /\ UNCHANGED hookvars
    /\ emitted' = "none"
    /\ UNCHANGED <<pending, adds, executed, cleanup>>
    /\ UNCHANGED <<scanvars, callvars>>

\* A page or view gives its own scheduler a task, whether it is in the
\* notebook or has left it; the scheduler holds at most MaxChildTasks tasks at a time.
PageAddsTask ==
  \E p \in Docs :
    /\ p = View => pages[p] # "new"
    /\ pages[p] # "absent"
    /\ pending[p] < MaxChildTasks
    /\ pending' = [pending EXCEPT ![p] = @ + 1]
    /\ Runnable(TasksPending(tasks, schedulers, pending),
                TasksPending(tasks, schedulers, [pending EXCEPT ![p] = @ + 1]))
    /\ UNCHANGED <<tasks, schedulers, turn, notebook, pages, adds, executed,
                   cleanup>>
    /\ UNCHANGED <<scanvars, callvars>>

\* The position of the child that is polled: the first one with a task, from
\* turn on and around.
Polled ==
  LET n == Len(schedulers)
      at(k) == ((turn - 1 + k) % n) + 1
      k0 == CHOOSE k \in 0..(n - 1) :
              /\ pending[schedulers[at(k)]] > 0
              /\ \A j \in 0..(k - 1) : pending[schedulers[at(j)]] = 0
  IN  at(k0)

\* on_idle after the iteration, with the label it returned and the answer
\* of tasks_pending().
OnIdleAlwaysUnhooks(src, label, still) ==
  /\ spinner' = [shown |-> FALSE, spinning |-> FALSE, tooltip |-> ""]
  /\ idle_hooked' = NoneValue
  /\ stop_sensitive' = FALSE
  /\ idle_sources' = idle_sources \ {src}

OnIdleTail(src, label, still) ==
  IF still
  THEN /\ spinner' = IF label # None
                     THEN [spinner EXCEPT !.tooltip = label]
                     ELSE spinner
       /\ UNCHANGED <<idle_hooked, idle_sources, stop_sensitive>>
  ELSE /\ spinner' = [shown |-> FALSE, spinning |-> FALSE, tooltip |-> ""]
       /\ idle_hooked' = NoneValue
       /\ stop_sensitive' = FALSE
       /\ idle_sources' = idle_sources \ {src}

\* on_idle, called by the main loop for an installed callback: one iteration
\* of the scheduler, then the test of what is pending.  The iteration runs
\* the next task of the window's own queue or, when that queue is empty,
\* gives one child one turn.  A task that is a page's scheduler gives that
\* scheduler one turn and stays queued while the scheduler has tasks.  The
\* cleanup task of _single_file_open removes the view's scheduler; the view
\* has made its diff when its scheduler has run the tasks it had.  The
\* task of a page that gets its turn may close the page (diff_created_cb).
OnIdle ==
  \E src \in idle_sources, closes \in BOOLEAN :
    LET own == tasks # <<>>
        t == IF own THEN NextTask(tasks) ELSE 0
        kid == ~own /\ \E i \in DOMAIN schedulers : pending[schedulers[i]] > 0
        who == IF t < 0 THEN PageOf(t)
               ELSE IF kid THEN schedulers[Polled] ELSE 0
        advanced == who # 0 /\ pending[who] > 0
        pending1 == IF advanced THEN [pending EXCEPT ![who] = @ - 1]
                    ELSE pending
        tasks1 == IF t > 0 \/ (t < 0 /\ pending1[who] = 0)
                  THEN Without(tasks, t) ELSE tasks
        gone == {c[2] : c \in {x \in cleanup : x[1] = t}}
               \cup (IF closes THEN {who} ELSE {})
        schedulers1 == SelectSeq(schedulers, LAMBDA q : q \notin gone)
        tasks2 == SelectSeq(tasks1, LAMBDA u : u > 0 \/ PageOf(u) \notin gone)
        label == IF advanced THEN "scanning" ELSE None
        still == TasksPending(tasks2, schedulers1, pending1)
    IN  /\ closes => advanced /\ pages[who] = "open"
        /\ tasks' = tasks2
        /\ pending' = pending1
        /\ schedulers' = schedulers1
        /\ notebook' = SelectSeq(notebook, LAMBDA q : q \notin gone)
        /\ pages' = [p \in Docs |->
                       IF p \in gone THEN "closed"
                       ELSE IF p = View /\ who = View /\ advanced
                               /\ pending1[View] = 0
                            THEN "diffed"
                            ELSE pages[p]]
        /\ cleanup' = {x \in cleanup : x[1] # t}
        /\ executed' = IF t > 0 THEN Append(executed, t) ELSE executed
        /\ turn' = IF gone # {} THEN 1
                   ELSE IF kid THEN (Polled % Len(schedulers)) + 1 ELSE turn
        /\ OnIdleTail(src, label, still)
        /\ emitted' = "none"
        /\ UNCHANGED adds
        /\ UNCHANGED <<scanvars, callvars>>

NextWindow ==
  \/ AddTask
  \/ SwitchPage
  \/ AppendPage
  \/ TryRemovePage
  \/ PageAddsTask
  \/ OnIdle

SpecWindow == Init /\ [][NextWindow]_vars

\* _single_file_open: the cleanup task is queued, then the view's scheduler
\* is registered, then set_location and run_diff give that scheduler the
\* work that makes the diff.
SingleFileOpen ==
  /\ pages[View] = "new"
  /\ adds < MaxAdds
  /\ tasks' = Append(tasks, adds + 1)
  /\ adds' = adds + 1
  /\ cleanup' = cleanup \cup {<<adds + 1, View>>}
  /\ schedulers' = Append(schedulers, View)
  /\ pages' = [pages EXCEPT ![View] = "transient"]
  /\ pending' = [pending EXCEPT ![View] = 1]
  /\ Runnable(TasksPending(tasks, schedulers, pending), TRUE)
  /\ UNCHANGED <<turn, notebook, executed>>
  /\ UNCHANGED <<scanvars, callvars>>

NextSingle == NextWindow \/ SingleFileOpen

SpecSingle == Init /\ [][NextSingle]_vars

\* The main loop calls an installed idle callback again and again.
SpecFair == SpecSingle /\ WF_vars(OnIdle)

SpecWindowFair == SpecWindow /\ WF_vars(OnIdle)

----------------------------------------------------------------------------
\* on_delete_event: the window is asked to close.

\* on_move_tab_prev, on_move_tab_next: a tab changes places with the tab at
\* its left, or at its right.
MoveTab ==
  \E i \in 1..(Len(notebook) - 1) :
    /\ notebook' = [notebook EXCEPT ![i] = notebook[i + 1],
                                     ![i + 1] = notebook[i]]
    /\ UNCHANGED hookvars
    /\ emitted' = "none"
    /\ UNCHANGED <<tasks, schedulers, turn, pages, pending, adds, executed,
                   cleanup>>
    /\ UNCHANGED <<scanvars, callvars>>

\* The pages are asked from the left.
CloseOrderLeftToRight(nb) == nb

\* reversed(self.notebook.get_children())
CloseOrder(nb) == [i \in DOMAIN nb |-> nb[Len(nb) + 1 - i]]

\* The loop of on_delete_event over the pages of order, the window being in
\* st; resp is what each page answers, current the page shown.  For each
\* page: set_current_page (on_switch_page gives the page's scheduler to the
\* window's scheduler, unless the page is shown already), try_remove_page,
\* and the return of True when the page answers CANCEL.
RECURSIVE on_delete_event(_, _, _, _)
on_delete_event(st, order, resp, current) ==
  IF order = <<>> THEN st
  ELSE LET p == Head(order)
           switched == p # current
           was == TasksPending(st.tasks, st.schedulers, pending)
           st1 == IF switched
                  THEN [st EXCEPT !.tasks = Requeued(st.tasks, SchedTask(p)),
                                  !.edge = st.edge \/ ~was]
                  ELSE st
       IN  IF resp[p] = "CANCEL"
           THEN [st1 EXCEPT !.ret = "True"]
           ELSE on_delete_event(
                  [st1 EXCEPT !.schedulers = Without(st1.schedulers, p),
                              !.tasks = Without(st1.tasks, SchedTask(p)),
                              !.notebook = Without(st1.notebook, p),
                              !.pages = [st1.pages EXCEPT ![p] = "closed"],
                              !.turn = 1],
                  Tail(order), resp, 0)

\* The delete-event of the window: the whole handler.  The call and what it
\* returns are kept until the main loop has taken the answer.
OnDeleteEvent ==
  /\ call = NoCall
  /\ \E resp \in [Range(notebook) -> {"OK", "CANCEL"}],
        current \in (IF notebook = <<>> THEN {0} ELSE Range(notebook)) :
       LET r == on_delete_event(
                  [notebook |-> notebook, pages |-> pages,
                   schedulers |-> schedulers, tasks |-> tasks, turn |-> turn,
                   edge |-> FALSE, ret |-> None],
                  CloseOrder(notebook), resp, current)
       IN  /\ notebook' = r.notebook
           /\ pages' = r.pages
           /\ schedulers' = r.schedulers
           /\ tasks' = r.tasks
           /\ turn' = r.turn
           /\ IF r.edge THEN on_scheduler_runnable
              ELSE UNCHANGED hookvars /\ emitted' = "none"
           /\ call' = [op |-> "on_delete_event", notebook |-> notebook,
                       responses |-> resp]
           /\ ret' = Returned(r.ret)
  /\ UNCHANGED <<pending, adds, executed, cleanup>>
  /\ UNCHANGED <<scanvars, popens, tempfiles>>

\* The main loop takes the True the handler returned: the window stays.
Resume ==
  /\ call # NoCall
  /\ ret = Returned("True")
  /\ call' = NoCall
  /\ ret' = NoRet
  /\ UNCHANGED <<scanvars, popens, tempfiles, winvars>>

\* A session in which every page is to come.
InitClose ==
  /\ ScanIdle
  /\ call = NoCall
  /\ ret = NoRet
  /\ popens = 0
  /\ tempfiles = {}
  /\ InitNoPages
  /\ pages = [p \in Docs |-> "new"]

NextClose ==
  \/ AppendPage
  \/ MoveTab
  \/ OnDeleteEvent
  \/ Resume

SpecClose == InitClose /\ [][NextClose]_vars

\* C19: the window's own task that runs is newer than every task of the
\* queue it leaves behind, so tasks added as 1, 2, 3 with no run in between
\* run as 3, 2, 1.
C19_NewestTaskFirst ==
  [][executed' # executed =>
       /\ executed' = Append(executed, tasks[Len(tasks)])
       /\ \A i \in DOMAIN tasks' : tasks'[i] < executed'[Len(executed')]
       /\ (tasks = <<1, 2, 3>> => executed'[Len(executed')] = 3)]_vars

C19_Witness == executed = <<3, 2, 1>> /\ tasks = <<>>

\* C20: a runnable signal leaves exactly one idle callback installed, with
\* the spinner shown and spinning and Stop sensitive; the handler installs
\* the callback when none is installed and installs nothing when one is, so
\* there is never more than one.
C20_OneIdleCallback ==
  /\ [](Cardinality(idle_sources) <= 1)
  /\ [][emitted' # "none" =>
          /\ Cardinality(idle_sources') = 1
          /\ idle_hooked' = <<CHOOSE x \in idle_sources' : TRUE>>
          /\ spinner'.shown /\ spinner'.spinning /\ stop_sensitive'
          /\ (emitted' = "reacted") <=> (idle_sources = {})
          /\ (emitted' = "ignored") <=> (idle_sources' = idle_sources)]_vars

C20_Witness ==
  /\ emitted = "ignored"
  /\ idle_sources = {1}
  /\ tasks # <<>>

\* The pages that are in the notebook.
InNotebook == {p \in Docs : pages[p] = "open"}

\* C21: the schedulers registered with the window's scheduler are those of
\* the pages in the notebook, each once: _append_page registers the page's
\* scheduler, a close that is not cancelled removes it with the page, and a
\* step that leaves the notebook as it was (a close answered with CANCEL is
\* one) leaves the registrations as they were.
C21_RegisteredArePagesInNotebook ==
  /\ [](/\ Range(schedulers) = InNotebook
        /\ Len(schedulers) = Cardinality(InNotebook))
  /\ [][/\ pages' = pages => schedulers' = schedulers
        /\ \A p \in Pages :
             /\ pages[p] = "new" /\ pages'[p] = "open"
                  => schedulers' = Append(schedulers, p)
             /\ pages[p] = "open" /\ pages'[p] = "closed"
                  => schedulers' = Without(schedulers, p)]_vars

\* A page was opened, got work, and was closed with the work still queued.
C21_Witness ==
  /\ pages[1] = "closed"
  /\ schedulers = <<>>
  /\ pending[1] > 0

\* C22: a closed page's scheduler is gone from the window's scheduler, as a
\* child and as a task, also when the page closed itself from inside its own
\* task; and every step that starts a task of a page's scheduler is a step
\* of a page that is in the notebook, whatever tasks a removed scheduler is
\* given later.
C22_RemovedSchedulerStartsNothing ==
  /\ [](\A p \in Docs :
          pages[p] = "closed"
            => /\ p \notin Range(schedulers)
               /\ SchedTask(p) \notin Range(tasks))
  /\ [][\A p \in Docs : pending'[p] < pending[p] => pages[p] = "open"]_vars

\* A removed scheduler holds tasks given to it after the removal, and the
\* window's scheduler is iterating for a task of its own.
C22_Witness ==
  /\ pages[1] = "closed"
  /\ pending[1] = MaxChildTasks
  /\ tasks # <<>>
  /\ idle_sources # {}

\* A registered child that has a task.
Waiting(p) == p \in Range(schedulers) /\ pending[p] > 0

\* C23: under repeated calls of on_idle no child starves: a step advances
\* the tasks of at most one scheduler, by one, and a child that is left
\* waiting with a task is advanced again and again, whatever the others
\* queue.
C23_NoChildStarves ==
  /\ [][\A p, q \in Docs :
          pending'[p] < pending[p]
            => /\ pending'[p] = pending[p] - 1
               /\ pending'[q] < pending[q] => q = p]_vars
  /\ \A p \in Docs :
       <>[]Waiting(p) => []<><<pending'[p] < pending[p]>>_vars

\* C24: in _single_file_open the cleanup task runs, and the view's scheduler
\* is removed, only after the view's scheduler has run the work that
\* set_location and run_diff queued on it, so after the diff was made.
C24_CleanupAfterDiff ==
  [][/\ cleanup # {} /\ cleanup' = {} => pages[View] = "diffed"
     /\ View \in Range(schedulers) /\ View \notin Range(schedulers')
          => pages[View] = "diffed"]_vars

\* The window's scheduler has something pending.
Pend == TasksPending(tasks, schedulers, pending)

\* C25: no wake-up is lost.  While something is pending an idle callback is
\* installed and idle_hooked holds it; on_idle clears the hook only in a call
\* after which nothing is pending; when something becomes pending a callback
\* is installed; and while something stays pending on_idle is called again
\* and again.
C25_NoLostWakeup ==
  /\ [](Pend => idle_sources # {} /\ Truthy(idle_hooked))
  /\ [][/\ idle_hooked # NoneValue /\ idle_hooked' = NoneValue => ~Pend'
        /\ ~Pend /\ Pend' => idle_sources' # {} /\ Truthy(idle_hooked')]_vars
  /\ <>[]Pend => []<><<OnIdle>>_vars

\* The hook was cleared by on_idle, and a task given after that installed a
\* callback again.
C25_Witness ==
  /\ executed # <<>>
  /\ tasks # <<>>
  /\ emitted = "reacted"
  /\ spinner.tooltip = ""
  /\ idle_sources # {}

\* C26: in every state of the window the Stop action is sensitive exactly
\* when idle_hooked holds an idle callback, which is exactly when one is
\* installed.
C26_StopFollowsHook ==
  /\ stop_sensitive <=> Truthy(idle_hooked)
  /\ stop_sensitive <=> idle_sources # {}

\* on_idle found nothing pending and cleared both.
C26_Witness ==
  /\ idle_hooked = NoneValue
  /\ ~stop_sensitive
  /\ executed # <<>>
  /\ idle_sources = {}

\* The state of p in the dict tree is lower than its state in the dict old.
Lowered(old, tree, p) ==
  p \in Keys(tree) /\ Prio(Get(tree, p, None)) < Prio(Get(old, p, None))

\* C27: a single-path refresh that got at least one status line never lowers
\* a cached state: at every step of it, every path that was in the cache when
\* it began is in the cache with a state of the same or a higher priority.
\* The only step of a refresh that lowers a state is the one for no line at
\* all, which sets the refreshed path to NORMAL.
C27_RefreshNeverLowers ==
  [][caller = "update_file_state" =>
       /\ got # {} =>
            \A p \in Keys(pre_cache) :
              p \in Keys(tree_cache') /\ ~Lowered(pre_cache, tree_cache', p)
       /\ (\E p \in Keys(tree_cache) : Lowered(tree_cache, tree_cache', p)) =>
            got = {} /\ tree_cache' = Put(tree_cache, path, STATE_NORMAL)]_vars

\* The refresh got a line whose state is lower than the cached state of its
\* path, and has taken it: the cached state stays.
C27_Witness ==
  /\ caller = "update_file_state"
  /\ pc = "loop"
  /\ entries = {}
  /\ got = {Line(" ", "M", " ", NameA)}
  /\ Get(pre_cache, PathA, None) = STATE_REMOVED
  /\ Get(tree_cache, PathA, None) = STATE_REMOVED

\* C28: when no operation is under way, the metadata map holds a string
\* only for a path whose state in the cache is not NORMAL (a path the cache
\* does not hold is looked up as NORMAL).
C28_MetadataOnlyForChangedPaths ==
  (pc = "idle" /\ cache_valid) =>
    \A p \in Keys(tree_meta_cache) :
      Get(tree_cache, p, STATE_NORMAL) # STATE_NORMAL

\* C29: column 1 takes precedence.  When the loop takes an accepted line
\* whose column-1 character maps to a state, that state is the one stored
\* for the line's path, whatever column 2 holds; when column 1 maps to no
\* state, the state of column 2 (NORMAL for a character it does not map) is
\* the one stored, or the state of column 3 in its place when it is NORMAL.
C29_ColumnOneFirst ==
  [][LoopStep =>
       \A e \in entries \ entries' :
         ~Discarded(e, keys1) =>
           LET s1 == Get(state_1_map, e.code[1], None)
               s2 == Get(state_2_map, e.code[2], STATE_NORMAL)
               s3 == Get(state_3_map, e.code[3], None)
               state == IF s1 # None THEN s1
                        ELSE IF s2 = STATE_NORMAL /\ s3 # None THEN s3 ELSE s2
           IN  tree_state' = StoreState(tree_state, EntryPath(e), state)]_vars

\* The line "?M  b" was taken: b is NONE, not MODIFIED.
C29_Witness ==
  /\ pc = "loop"
  /\ entries = {}
  /\ got = {Line("?", "M", " ", NameB)}
  /\ tree_state = {<<PathB, STATE_NONE>>}

\* C30: in the result of the lookup no path has two entries.
C30_NoPathTwice ==
  LookupReturned =>
    LET all == ret.value.dirs \o ret.value.files
    IN  \A i, j \in DOMAIN all : all[i].path = all[j].path => i = j

\* The position in nb of the rightmost page that answers CANCEL, 0 when no
\* page does.
Vetoed(nb, resp) ==
  IF \E i \in DOMAIN nb : resp[nb[i]] = "CANCEL"
  THEN CHOOSE i \in DOMAIN nb :
         /\ resp[nb[i]] = "CANCEL"
         /\ \A j \in (i + 1)..Len(nb) : resp[nb[j]] = "OK"
  ELSE 0

\* C31: when the window is asked to close, the pages to the right of the
\* rightmost page that answers CANCEL are closed and their schedulers
\* removed, that page and the pages to its left stay in the notebook, open,
\* in their order and with their schedulers registered, and the handler
\* returns True; it returns True only then.
C31_ClosesRightToLeftUntilCancel ==
  [][call = NoCall /\ call' # NoCall =>
       LET k == Vetoed(notebook, call'.responses)
       IN  /\ call'.notebook = notebook
           /\ notebook' = SubSeq(notebook, 1, k)
           /\ \A i \in DOMAIN notebook :
                LET p == notebook[i]
                IN  IF i > k
                    THEN /\ pages'[p] = "closed"
                         /\ p \notin Range(schedulers')
                         /\ SchedTask(p) \notin Range(tasks')
                    ELSE /\ pages'[p] = "open"
                         /\ p \in Range(schedulers')
           /\ schedulers' = SelectSeq(schedulers,
                                      LAMBDA q : q \in Range(notebook'))
           /\ (ret' = Returned("True")) <=> (k > 0)
           /\ ret' \in {Returned("True"), Returned(None)}]_vars

\* Of two pages the one at the left answered CANCEL: the one at the right is
\* closed, the one at the left is open.
C31_Witness ==
  /\ call # NoCall
  /\ Len(call.notebook) = 2
  /\ call.responses[call.notebook[1]] = "CANCEL"
  /\ call.responses[call.notebook[2]] = "OK"
  /\ ret = Returned("True")
  /\ notebook = <<call.notebook[1]>>
  /\ pages[call.notebook[2]] = "closed"

============================================================================
